---- MODULE Spec2Model ----
(***************************************************************************)
(* object-appender (src/main.go): list the objects under a source          *)
(* bucket/prefix, stage them under /tmp, append the staged files into one  *)
(* artifact, upload the artifact, clean the staging directories up.        *)
(*                                                                         *)
(* Strings are sequences of byte codes, so that splitting at "/", joining  *)
(* and the ordering of names are computed and not assumed.  A path is the  *)
(* sequence of its components.                                             *)
(***************************************************************************)
EXTENDS Integers, Sequences, FiniteSets, TLC

\* ------------------------------------------------------------------ bounds
MaxObjSize == 2
MaxFaults == 1

\* ----------------------------------------------------------------- strings
Slash == 47
Dash == 45

\* "/tmp" as a path
StagingDirectory == << <<116, 109, 112>> >>

\* byte-wise lexicographic order of two strings
StrLess(a, b) ==
    \E i \in 1..Len(b) :
        /\ i <= Len(a) + 1
        /\ \A j \in 1..(i - 1) : a[j] = b[j]
        /\ (i = Len(a) + 1 \/ a[i] < b[i])

\* position of the first "/" of s, 0 when there is none
FirstSlash(s) ==
    IF \E i \in 1..Len(s) : s[i] = Slash
    THEN CHOOSE i \in 1..Len(s) : s[i] = Slash /\ \A j \in 1..(i - 1) : s[j] # Slash
    ELSE 0

\* strings.SplitN(s, "/", 2)
SplitN2(s) ==
    IF FirstSlash(s) = 0 THEN <<s>>
    ELSE <<SubSeq(s, 1, FirstSlash(s) - 1), SubSeq(s, FirstSlash(s) + 1, Len(s))>>

\* the path components of a "/"-separated string, as the file system resolves
\* it: empty components are dropped
RECURSIVE Components(_)
Components(s) ==
    IF s = <<>> THEN <<>>
    ELSE IF FirstSlash(s) = 0 THEN <<s>>
    ELSE IF FirstSlash(s) = 1 THEN Components(Tail(s))
    ELSE <<SubSeq(s, 1, FirstSlash(s) - 1)>> \o Components(SubSeq(s, FirstSlash(s) + 1, Len(s)))

\* strconv.Itoa for n >= 0
RECURSIVE Itoa(_)
Itoa(n) == IF n < 10 THEN <<48 + n>> ELSE Itoa(n \div 10) \o <<48 + (n % 10)>>

HasPrefix(s, p) == Len(p) <= Len(s) /\ SubSeq(s, 1, Len(p)) = p

\* the names of S in lexical order (filepath.Walk reads a directory sorted)
RECURSIVE SortNames(_)
SortNames(S) ==
    IF S = {} THEN <<>>
    ELSE LET m == CHOOSE x \in S : \A y \in S \ {x} : StrLess(x, y)
         IN <<m>> \o SortNames(S \ {m})

\* ------------------------------------------------------------- file system
\* fs maps every existing path to its node
DirNode == [dir |-> TRUE, data |-> <<>>]
FileNode(d) == [dir |-> FALSE, data |-> d]

\* filepath.Dir of a path of at least one component
Dir(p) == SubSeq(p, 1, Len(p) - 1)

Under(p, q) == HasPrefix(q, p)

IsFile(f, p) == p \in DOMAIN f /\ ~f[p].dir
IsDirectory(f, p) == p \in DOMAIN f /\ f[p].dir

Prefixes(p) == {SubSeq(p, 1, i) : i \in 1..Len(p)}

\* os.MkdirAll fails when a component of the path is a file
MkdirAllOK(f, p) == \A q \in Prefixes(p) : q \in DOMAIN f => f[q].dir
MkdirAll(f, p) ==
    [q \in DOMAIN f \cup Prefixes(p) |-> IF q \in DOMAIN f THEN f[q] ELSE DirNode]

\* os.RemoveAll: the path and everything under it
RemoveAll(f, p) == [q \in {x \in DOMAIN f : ~Under(p, x)} |-> f[q]]

\* os.Remove: a file or an empty directory; anything else is left as it is
RemoveOK(f, p) ==
    /\ p \in DOMAIN f
    /\ f[p].dir => ~\E q \in DOMAIN f : q # p /\ Under(p, q)
Remove(f, p) == IF RemoveOK(f, p) THEN [q \in DOMAIN f \ {p} |-> f[q]] ELSE f

WriteFile(f, p, d) == [q \in DOMAIN f \cup {p} |-> IF q = p THEN FileNode(d) ELSE f[q]]

\* a directory read that returns the entries in the opposite order
ReadDirNamesReversed(f, p) ==
    LET names == SortNames({q[Len(q)] : q \in {x \in DOMAIN f : Len(x) = Len(p) + 1 /\ Under(p, x)}})
    IN  [i \in 1..Len(names) |-> names[Len(names) + 1 - i]]

\* the entries of directory p, sorted by name
ReadDirNames(f, p) == SortNames({q[Len(q)] : q \in {x \in DOMAIN f : Len(x) = Len(p) + 1 /\ Under(p, x)}})

\* ------------------------------------------------------------------ inputs
\* "src/", "tgt/out", "src/out" and the malformed "src"
SourceFlags == {<<115, 114, 99, 47>>, <<115, 114, 99>>}
TargetFlags == {<<116, 103, 116, 47, 111, 117, 116>>, <<115, 114, 99, 47, 111, 117, 116>>}
SrcName == <<115, 114, 99>>
TgtName == <<116, 103, 116>>

\* "a.txt", "a/b", "z"
Keys == {<<97, 46, 116, 120, 116>>, <<97, 47, 98>>, <<122>>}

\* the bytes of an object: its size times the last byte of its key
Content(k, n) == [i \in 1..n |-> k[Len(k)]]

Runs == {1, 2}

\* ------------------------------------------------------------------- state
VARIABLES
    pc,                  \* position of each run in main
    sourceBucketPrefix, targetBucketPrefix, endpoint, enableCleanUp, clock,
    sourceBucket, sourcePrefix, targetBucket, targetPrefix,
    s3Client, downloadDirectory, uploadDirectory, targetObject,
    objectCount, objectSize, fileCount, fileSize,
    listing,             \* what the ListObjects channel still holds
    mu,                  \* appendObjects' mutex: TRUE while held
    out,                 \* appendObjects' output file as its descriptor sees it
    walkErr,             \* what filepath.Walk returned
    todo,                \* the paths filepath.Walk still has to visit
    info,                \* out.Stat().Size(), -1 before
    fs,                  \* the local file system
    store,               \* the object store: bucket -> key -> bytes
    faultBudget,         \* environment faults still to come
    calls,               \* history: the steps main has invoked, in order
    ret,                 \* history: what each step returned
    staged,              \* history: the paths FGetObject wrote
    listed,              \* history: the keys fetched, in listing order
    found,               \* history: the objects the listing yields, -1 before it
    tampered,            \* history: something outside the runs changed a scratch file
    visited,             \* history: the files the walk opened, in order
    mismatch,            \* history: a consistency check of appendObjects failed
    badUnlock,           \* history: Unlock was called on the mutex while not held
    putCalled,           \* history: FPutObject was called
    bucketKnown,         \* history: uploadObject saw the bucket exist
    actor                \* history: the run that took the last step (0: environment)

inputVars == <<sourceBucketPrefix, targetBucketPrefix, endpoint, enableCleanUp, clock>>
flagVars == <<sourceBucket, sourcePrefix, targetBucket, targetPrefix>>
dirVars == <<s3Client, downloadDirectory, uploadDirectory, targetObject>>
objVars == <<objectCount, objectSize, listing, staged, listed, found>>
fileVars == <<fileCount, fileSize, visited>>
appendVars == <<mu, out, walkErr, todo, info, mismatch, badUnlock>>
uploadVars == <<putCalled, bucketKnown>>
vars == <<pc, inputVars, flagVars, dirVars, objVars, fileVars, appendVars, uploadVars,
          fs, store, faultBudget, calls, ret, tampered, actor>>

NoRet == [createClient |-> "-", downloadObjects |-> "-", appendObjects |-> "-",
          uploadObject |-> "-"]
NoOut == [open |-> FALSE, path |-> <<>>, data |-> <<>>]

\* the object stores a run can meet: the source bucket holds any objects of
\* Keys, the target bucket exists or does not
Stores ==
    {[b \in {SrcName} \cup tb |-> IF b = SrcName THEN [k \in K |-> Content(k, sz[k])] ELSE <<>>] :
        <<K, sz, tb>> \in {<<K, sz, tb>> \in (SUBSET Keys) \X [Keys -> 0..MaxObjSize] \X {{}, {TgtName}} :
            \A k \in Keys \ K : sz[k] = 0}}

InitCommon ==
    /\ sourceBucket = [r \in Runs |-> <<>>]
    /\ sourcePrefix = [r \in Runs |-> <<>>]
    /\ targetBucket = [r \in Runs |-> <<>>]
    /\ targetPrefix = [r \in Runs |-> <<>>]
    /\ s3Client = [r \in Runs |-> "nil"]
    /\ downloadDirectory = [r \in Runs |-> <<>>]
    /\ uploadDirectory = [r \in Runs |-> <<>>]
    /\ targetObject = [r \in Runs |-> <<>>]
    /\ objectCount = [r \in Runs |-> 0]
    /\ objectSize = [r \in Runs |-> 0]
    /\ fileCount = [r \in Runs |-> 0]
    /\ fileSize = [r \in Runs |-> 0]
    /\ listing = [r \in Runs |-> <<>>]
    /\ mu = [r \in Runs |-> FALSE]
    /\ out = [r \in Runs |-> NoOut]
    /\ walkErr = [r \in Runs |-> "nil"]
    /\ todo = [r \in Runs |-> <<>>]
    /\ info = [r \in Runs |-> -1]
    /\ fs = [p \in {StagingDirectory} |-> DirNode]
    /\ calls = [r \in Runs |-> <<>>]
    /\ ret = [r \in Runs |-> NoRet]
    /\ staged = [r \in Runs |-> {}]
    /\ listed = [r \in Runs |-> <<>>]
    /\ found = [r \in Runs |-> -1]
    /\ tampered = FALSE
    /\ visited = [r \in Runs |-> <<>>]
    /\ mismatch = [r \in Runs |-> FALSE]
    /\ badUnlock = [r \in Runs |-> FALSE]
    /\ putCalled = [r \in Runs |-> FALSE]
    /\ bucketKnown = [r \in Runs |-> FALSE]
    /\ actor = 0

\* one run of the program, any flags, any store, at most MaxFaults faults
Init ==
    /\ InitCommon
    /\ pc = [r \in Runs |-> IF r = 1 THEN "flags" ELSE "off"]
    /\ \E s \in SourceFlags, t \in TargetFlags :
        /\ sourceBucketPrefix = [r \in Runs |-> s]
        /\ targetBucketPrefix = [r \in Runs |-> t]
    /\ \E e \in {"valid", "invalid"} : endpoint = [r \in Runs |-> e]
    /\ \E c \in {"false", "true", "yes"} : enableCleanUp = [r \in Runs |-> c]
    /\ clock = [r \in Runs |-> r]
    /\ store \in Stores
    /\ faultBudget = MaxFaults

\* ----------------------------------------------------------- environment
\* the outcomes the environment can give an operation: "none" is success, the
\* others are failures of the named system or store call
Choices(kinds) == IF faultBudget > 0 THEN {"none"} \cup kinds ELSE {"none"}
Spend(c) == faultBudget' = IF c = "none" THEN faultBudget ELSE faultBudget - 1

\* s3Client.ListObjects(bucket, {Recursive, Prefix}): the keys under the prefix
\* in the store's order, which is the byte order of the keys
ListObjects(st, bucket, prefix) ==
    IF bucket \notin DOMAIN st THEN <<[Key |-> <<>>, Size |-> 0, Err |-> TRUE]>>
    ELSE LET ks == SortNames({k \in DOMAIN st[bucket] : HasPrefix(k, prefix)})
         IN [i \in 1..Len(ks) |-> [Key |-> ks[i], Size |-> Len(st[bucket][ks[i]]), Err |-> FALSE]]

\* s3Client.FGetObject writes the object to filePath, making its directories
FGetObjectOK(f, filePath) == filePath # <<>> /\ ~IsDirectory(f, filePath) /\ MkdirAllOK(f, Dir(filePath))
FGetObject(f, filePath, d) == WriteFile(MkdirAll(f, Dir(filePath)), filePath, d)

PutObject(st, bucket, key, d) ==
    [b \in DOMAIN st |->
        IF b = bucket THEN [k \in DOMAIN st[b] \cup {key} |-> IF k = key THEN d ELSE st[b][k]]
        ELSE st[b]]

Return(r, step, e) == ret' = [ret EXCEPT ![r][step] = e]
Call(r, step) == calls' = [calls EXCEPT ![r] = Append(@, step)]

\* -------------------------------------------------------------------- main
\* main, lines 72-81: both flags must split into bucket and prefix
ParseFlags(r) ==
    /\ pc[r] = "flags"
    /\ IF Len(SplitN2(sourceBucketPrefix[r])) # 2 \/ Len(SplitN2(targetBucketPrefix[r])) # 2
       THEN /\ pc' = [pc EXCEPT ![r] = "exit_fatal"]
            /\ UNCHANGED flagVars
       ELSE /\ sourceBucket' = [sourceBucket EXCEPT ![r] = SplitN2(sourceBucketPrefix[r])[1]]
            /\ sourcePrefix' = [sourcePrefix EXCEPT ![r] = SplitN2(sourceBucketPrefix[r])[2]]
            /\ targetBucket' = [targetBucket EXCEPT ![r] = SplitN2(targetBucketPrefix[r])[1]]
            /\ targetPrefix' = [targetPrefix EXCEPT ![r] = SplitN2(targetBucketPrefix[r])[2]]
            /\ pc' = [pc EXCEPT ![r] = "client"]
    /\ actor' = r
    /\ UNCHANGED <<inputVars, dirVars, objVars, fileVars, appendVars, uploadVars,
                   fs, store, faultBudget, calls, ret, tampered>>

\* main, lines 84-94: a failure of createClient is logged and main goes on
CreateClient(r) ==
    /\ pc[r] = "client"
    /\ Call(r, "createClient")
    /\ s3Client' = [s3Client EXCEPT ![r] = IF endpoint[r] = "valid" THEN "client" ELSE "nil"]
    /\ Return(r, "createClient", IF endpoint[r] = "valid" THEN "nil" ELSE "err")
    /\ downloadDirectory' = [downloadDirectory EXCEPT ![r] =
            StagingDirectory \o Components(sourceBucket[r]) \o <<Itoa(clock[r])>>]
    /\ uploadDirectory' = [uploadDirectory EXCEPT ![r] =
            StagingDirectory \o Components(targetBucket[r]) \o <<Itoa(clock[r])>>]
    /\ targetObject' = [targetObject EXCEPT ![r] = sourceBucket[r] \o <<Dash>> \o Itoa(clock[r])]
    /\ pc' = [pc EXCEPT ![r] = "download"]
    /\ actor' = r
    /\ UNCHANGED <<inputVars, flagVars, objVars, fileVars, appendVars, uploadVars,
                   fs, store, faultBudget, tampered>>

\* the step main takes after a step returned e
AfterStep(r, e, next) == pc' = [pc EXCEPT ![r] = IF e # "nil" THEN "cleanup" ELSE next]

\* downloadObjects, lines 133-144: make the bucket's staging directory and list
DownloadObjects(r) ==
    /\ pc[r] = "download"
    /\ Call(r, "downloadObjects")
    /\ \E c \in Choices({"mkdir", "list"}) :
        LET parent == Dir(downloadDirectory[r])
            full == ListObjects(store, sourceBucket[r], sourcePrefix[r])
        IN  /\ Spend(c)
            /\ IF c = "mkdir" \/ ~MkdirAllOK(fs, parent)
               THEN /\ Return(r, "downloadObjects", "err")
                    /\ AfterStep(r, "err", "dl_loop")
                    /\ UNCHANGED <<fs, listing, found>>
               ELSE /\ fs' = MkdirAll(fs, parent)
                    /\ UNCHANGED ret
                    /\ IF s3Client[r] = "nil"
                       THEN \* a method call on the nil client: the process panics
                            /\ pc' = [pc EXCEPT ![r] = "exit_panic"]
                            /\ UNCHANGED <<listing, found>>
                       ELSE /\ pc' = [pc EXCEPT ![r] = "dl_loop"]
                            /\ \E n \in 0..Len(full) :
                                /\ listing' = [listing EXCEPT ![r] =
                                    IF c = "list"
                                    THEN SubSeq(full, 1, n) \o <<[Key |-> <<>>, Size |-> 0, Err |-> TRUE]>>
                                    ELSE full]
                                /\ found' = [found EXCEPT ![r] = IF c = "list" THEN n ELSE Len(full)]
    /\ actor' = r
    /\ UNCHANGED <<inputVars, flagVars, dirVars, objectCount, objectSize, staged, listed,
                   fileVars, appendVars, uploadVars, store, tampered>>

\* downloadObjects, lines 144-158: one object received from the listing
DownloadNext(r) ==
    /\ pc[r] = "dl_loop"
    /\ listing[r] # <<>>
    /\ \E c \in (IF Head(listing[r]).Err THEN {"none"} ELSE Choices({"get"})) :
        LET object == Head(listing[r])
            objectName == downloadDirectory[r] \o Components(object.Key)
        IN  /\ Spend(c)
            /\ IF object.Err
               THEN /\ Return(r, "downloadObjects", "err")
                    /\ AfterStep(r, "err", "dl_loop")
                    /\ UNCHANGED <<objectCount, objectSize, staged, listed, fs, listing>>
               ELSE /\ objectCount' = [objectCount EXCEPT ![r] = @ + 1]
                    /\ IF c = "get" \/ ~FGetObjectOK(fs, objectName)
                       THEN /\ Return(r, "downloadObjects", "err")
                            /\ AfterStep(r, "err", "dl_loop")
                            /\ UNCHANGED <<objectSize, staged, listed, fs, listing>>
                       ELSE /\ fs' = FGetObject(fs, objectName, store[sourceBucket[r]][object.Key])
                            /\ objectSize' = [objectSize EXCEPT ![r] = @ + object.Size]
                            /\ staged' = [staged EXCEPT ![r] = @ \cup {objectName}]
                            /\ listed' = [listed EXCEPT ![r] = Append(@, object.Key)]
                            /\ listing' = [listing EXCEPT ![r] = Tail(@)]
                            /\ UNCHANGED <<ret, pc>>
    /\ actor' = r
    /\ UNCHANGED <<inputVars, flagVars, dirVars, fileVars, appendVars, uploadVars,
                   found, store, calls, tampered>>

\* a downloadObjects that takes an empty listing for a success
DownloadResultNoCheck(oc) == "nil"

\* downloadObjects, lines 159-165: no object counted is an error
DownloadResult(oc) == IF oc = 0 THEN "err" ELSE "nil"

\* downloadObjects, lines 159-165: the listing is exhausted
DownloadEnd(r) ==
    /\ pc[r] = "dl_loop"
    /\ listing[r] = <<>>
    /\ LET e == DownloadResult(objectCount[r])
       IN  /\ Return(r, "downloadObjects", e)
           /\ AfterStep(r, e, "append")
    /\ actor' = r
    /\ UNCHANGED <<inputVars, flagVars, dirVars, objVars, fileVars, appendVars, uploadVars,
                   fs, store, faultBudget, calls, tampered>>

\* ----------------------------------------------------------- appendObjects
\* mu.Unlock(): on a mutex that is not held the runtime ends the process
\* ("fatal error: sync: unlock of unlocked mutex"), which no defer survives
Unlock(r, next) ==
    /\ mu' = [mu EXCEPT ![r] = FALSE]
    /\ badUnlock' = [badUnlock EXCEPT ![r] = @ \/ ~mu[r]]
    /\ pc' = [pc EXCEPT ![r] = IF mu[r] THEN next ELSE "exit_crash"]

\* a write through the descriptor out: the file at out's path shows it as long
\* as it is still linked there
WriteOut(r, f, d) == IF IsFile(f, out[r].path) THEN WriteFile(f, out[r].path, d) ELSE f

\* appendObjects, lines 170-191: remove and reopen the output, lock, start the walk
AppendOpen(r) ==
    /\ pc[r] = "append"
    /\ Call(r, "appendObjects")
    /\ \E c \in Choices({"mkdir", "open"}) :
        LET objectName == uploadDirectory[r] \o Components(targetObject[r])
            removed == Remove(fs, objectName)
        IN  /\ Spend(c)
            /\ IF c = "mkdir" \/ ~MkdirAllOK(removed, Dir(objectName))
               THEN /\ fs' = removed
                    /\ Return(r, "appendObjects", "err")
                    /\ AfterStep(r, "err", "walk")
                    /\ UNCHANGED <<mu, out, todo>>
               ELSE IF c = "open" \/ IsDirectory(removed, objectName)
               THEN /\ fs' = MkdirAll(removed, Dir(objectName))
                    /\ Return(r, "appendObjects", "err")
                    /\ AfterStep(r, "err", "walk")
                    /\ UNCHANGED <<mu, out, todo>>
               ELSE LET made == MkdirAll(removed, Dir(objectName))
                        d == IF IsFile(made, objectName) THEN made[objectName].data ELSE <<>>
                    IN  /\ fs' = WriteFile(made, objectName, d)
                        /\ out' = [out EXCEPT ![r] = [open |-> TRUE, path |-> objectName, data |-> d]]
                        /\ mu' = [mu EXCEPT ![r] = TRUE]
                        /\ todo' = [todo EXCEPT ![r] = <<downloadDirectory[r]>>]
                        /\ pc' = [pc EXCEPT ![r] = "walk"]
                        /\ UNCHANGED ret
    /\ actor' = r
    /\ UNCHANGED <<inputVars, flagVars, dirVars, objVars, fileVars, walkErr, info,
                   mismatch, badUnlock, uploadVars, store, tampered>>

\* the walk function fails: lines 192-196, 201-205, 207-211, 213-217
WalkFail(r) ==
    /\ Unlock(r, "verify")
    /\ walkErr' = [walkErr EXCEPT ![r] = "err"]
    /\ todo' = [todo EXCEPT ![r] = <<>>]

\* the walk goes on with the paths in rest, or has visited everything
WalkOn(r, rest) ==
    /\ todo' = [todo EXCEPT ![r] = rest]
    /\ pc' = [pc EXCEPT ![r] = IF rest = <<>> THEN "verify" ELSE "walk"]
    /\ UNCHANGED <<mu, badUnlock, walkErr>>

\* appendObjects, lines 191-221: filepath.Walk visits the next path
WalkStep(r) ==
    /\ pc[r] = "walk"
    /\ LET path == Head(todo[r]) IN
       \E c \in (IF IsFile(fs, path) THEN Choices({"open", "copy", "stat"}) ELSE {"none"}) :
        /\ Spend(c)
        /\ IF path \notin DOMAIN fs
           THEN \* lstat failed: the walk function is called with the error
                /\ WalkFail(r)
                /\ UNCHANGED <<fileCount, fileSize, visited, out, fs>>
           ELSE IF fs[path].dir
           THEN /\ WalkOn(r, [i \in 1..Len(ReadDirNames(fs, path)) |->
                                   path \o <<ReadDirNames(fs, path)[i]>>] \o Tail(todo[r]))
                /\ UNCHANGED <<fileCount, fileSize, visited, out, fs>>
           ELSE /\ fileCount' = [fileCount EXCEPT ![r] = @ + 1]
                /\ visited' = [visited EXCEPT ![r] = Append(@, path)]
                /\ IF c = "open" \/ c = "copy"
                   THEN /\ WalkFail(r)
                        /\ UNCHANGED <<fileSize, out, fs>>
                   ELSE IF path = out[r].path /\ out[r].data # <<>>
                   THEN \* the output is read into itself: every chunk read is
                        \* appended, so the copy ends only when a write fails
                        /\ out' = [out EXCEPT ![r].data = @ \o @]
                        /\ fs' = WriteOut(r, fs, out[r].data \o out[r].data)
                        /\ WalkFail(r)
                        /\ UNCHANGED fileSize
                   ELSE /\ out' = [out EXCEPT ![r].data = @ \o fs[path].data]
                        /\ fs' = WriteOut(r, fs, out[r].data \o fs[path].data)
                        /\ IF c = "stat"
                           THEN /\ WalkFail(r)
                                /\ UNCHANGED fileSize
                           ELSE /\ fileSize' = [fileSize EXCEPT ![r] = @ + Len(fs[path].data)]
                                /\ WalkOn(r, Tail(todo[r]))
    /\ actor' = r
    /\ UNCHANGED <<inputVars, flagVars, dirVars, objVars, info, mismatch, uploadVars,
                   store, calls, ret, tampered>>

\* appendObjects, lines 223-257, after the walk: where the function returns.
\* Line 223 assigns out.Stat's error to the err that held filepath.Walk's
\* result, so err is nil at line 231 and at every return below it.
AppendResult(walked, statErr, oc, os, fc, fsz, size) ==
    LET err == statErr
    IN  IF err # "nil" THEN [unlock |-> TRUE, err |-> err, mismatch |-> FALSE]
        ELSE IF err # "nil" THEN [unlock |-> FALSE, err |-> err, mismatch |-> FALSE]
        ELSE IF oc # fc THEN [unlock |-> TRUE, err |-> err, mismatch |-> TRUE]
        ELSE IF os # fsz THEN [unlock |-> TRUE, err |-> err, mismatch |-> TRUE]
        ELSE IF os # size THEN [unlock |-> TRUE, err |-> err, mismatch |-> TRUE]
        ELSE [unlock |-> TRUE, err |-> "nil", mismatch |-> FALSE]

\* appendObjects, lines 222-258: stat the output, compare, unlock, return
AppendVerify(r) ==
    /\ pc[r] = "verify"
    /\ \E c \in Choices({"stat"}) :
        LET res == AppendResult(walkErr[r], IF c = "stat" THEN "err" ELSE "nil",
                                objectCount[r], objectSize[r], fileCount[r], fileSize[r],
                                Len(out[r].data))
            next == IF res.err # "nil" THEN "cleanup" ELSE "upload"
        IN  /\ Spend(c)
            /\ info' = [info EXCEPT ![r] = IF c = "stat" THEN -1 ELSE Len(out[r].data)]
            /\ mismatch' = [mismatch EXCEPT ![r] = res.mismatch]
            /\ IF res.unlock
               THEN Unlock(r, next)
               ELSE /\ pc' = [pc EXCEPT ![r] = next]
                    /\ UNCHANGED <<mu, badUnlock>>
            /\ IF res.unlock /\ ~mu[r]
               THEN UNCHANGED <<ret, out>>
               ELSE /\ Return(r, "appendObjects", res.err)
                    /\ out' = [out EXCEPT ![r].open = FALSE]
    /\ actor' = r
    /\ UNCHANGED <<inputVars, flagVars, dirVars, objVars, fileVars, walkErr, todo,
                   uploadVars, fs, store, calls, tampered>>

\* ------------------------------------------------------------ uploadObject
\* uploadObject, lines 262-276: what the bucket check decides.  made: MakeBucket
\* returned no error; existsErr, exists: what BucketExists returned.
BucketCheck(made, existsErr, exists) ==
    IF ~made
    THEN IF existsErr = "nil" /\ exists THEN "continue"
         ELSE IF existsErr # "nil" THEN "return"
         ELSE "continue"
    ELSE "continue"

\* uploadObject, lines 260-288
UploadObject(r) ==
    /\ pc[r] = "upload"
    /\ Call(r, "uploadObject")
    /\ \E c \in Choices({"make", "exists", "put"}) :
        LET made == c # "make" /\ targetBucket[r] \notin DOMAIN store
            store1 == IF made
                      THEN [b \in DOMAIN store \cup {targetBucket[r]} |->
                                IF b = targetBucket[r] THEN <<>> ELSE store[b]]
                      ELSE store
            existsErr == IF c = "exists" THEN "err" ELSE "nil"
            exists == existsErr = "nil" /\ targetBucket[r] \in DOMAIN store
            filePath == uploadDirectory[r] \o Components(targetObject[r])
            objectName == targetPrefix[r] \o <<Slash>> \o targetObject[r]
            putOK == c # "put" /\ IsFile(fs, filePath) /\ targetBucket[r] \in DOMAIN store1
        IN  /\ Spend(c)
            /\ c = "exists" => ~made
            /\ bucketKnown' = [bucketKnown EXCEPT ![r] = made \/ (existsErr = "nil" /\ exists)]
            /\ IF BucketCheck(made, existsErr, exists) = "return"
               THEN /\ Return(r, "uploadObject", "err")
                    /\ UNCHANGED <<putCalled, store>>
               ELSE /\ putCalled' = [putCalled EXCEPT ![r] = TRUE]
                    /\ Return(r, "uploadObject", IF putOK THEN "nil" ELSE "err")
                    /\ store' = IF putOK
                                THEN PutObject(store1, targetBucket[r], objectName, fs[filePath].data)
                                ELSE store1
    /\ pc' = [pc EXCEPT ![r] = "cleanup"]
    /\ actor' = r
    /\ UNCHANGED <<inputVars, flagVars, dirVars, objVars, fileVars, appendVars, fs, tampered>>

\* ----------------------------------------------------------------- cleanUp
\* cleanUp, lines 290-302: a failed RemoveAll ends the process (log.Fatalf)
CleanUp(r) ==
    /\ pc[r] = "cleanup"
    /\ Call(r, "cleanUp")
    /\ \E c \in (IF enableCleanUp[r] # "true" THEN Choices({"rm1", "rm2"}) ELSE {"none"}) :
        /\ Spend(c)
        /\ IF enableCleanUp[r] # "true"
           THEN IF c = "rm1"
                THEN /\ pc' = [pc EXCEPT ![r] = "exit_fatal"]
                     /\ UNCHANGED fs
                ELSE IF c = "rm2"
                THEN /\ pc' = [pc EXCEPT ![r] = "exit_fatal"]
                     /\ fs' = RemoveAll(fs, Dir(downloadDirectory[r]))
                ELSE /\ pc' = [pc EXCEPT ![r] = "done"]
                     /\ fs' = RemoveAll(RemoveAll(fs, Dir(downloadDirectory[r])),
                                        Dir(uploadDirectory[r]))
           ELSE /\ pc' = [pc EXCEPT ![r] = "done"]
                /\ UNCHANGED fs
    /\ actor' = r
    /\ UNCHANGED <<inputVars, flagVars, dirVars, objVars, fileVars, appendVars, uploadVars,
                   store, ret, tampered>>

\* ------------------------------------------------------------- environment
InProgress(r) == pc[r] \in {"dl_loop", "append", "walk", "verify", "upload"}

\* something outside the run deletes a file of the run's scratch directories
TamperRemove ==
    /\ faultBudget > 0
    /\ \E r \in Runs, p \in DOMAIN fs :
        /\ InProgress(r)
        /\ IsFile(fs, p)
        /\ Under(downloadDirectory[r], p) \/ Under(uploadDirectory[r], p)
        /\ fs' = [q \in DOMAIN fs \ {p} |-> fs[q]]
    /\ faultBudget' = faultBudget - 1
    /\ tampered' = TRUE
    /\ actor' = 0
    /\ UNCHANGED <<pc, inputVars, flagVars, dirVars, objVars, fileVars, appendVars,
                   uploadVars, store, calls, ret>>

\* something outside the run truncates a staged item
TamperTruncate ==
    /\ faultBudget > 0
    /\ \E r \in Runs, p \in DOMAIN fs :
        /\ InProgress(r)
        /\ p \in staged[r]
        /\ IsFile(fs, p)
        /\ fs[p].data # <<>>
        /\ p # out[r].path
        /\ fs' = WriteFile(fs, p, <<>>)
    /\ faultBudget' = faultBudget - 1
    /\ tampered' = TRUE
    /\ actor' = 0
    /\ UNCHANGED <<pc, inputVars, flagVars, dirVars, objVars, fileVars, appendVars,
                   uploadVars, store, calls, ret>>

\* something outside the run appends a byte to the output while it is open
TamperGrow ==
    /\ faultBudget > 0
    /\ \E r \in Runs :
        /\ InProgress(r)
        /\ out[r].open
        /\ IsFile(fs, out[r].path)
        /\ out' = [out EXCEPT ![r].data = Append(@, 0)]
        /\ fs' = WriteFile(fs, out[r].path, Append(out[r].data, 0))
    /\ faultBudget' = faultBudget - 1
    /\ tampered' = TRUE
    /\ actor' = 0
    /\ UNCHANGED <<pc, inputVars, flagVars, dirVars, objVars, fileVars, mu, walkErr, todo,
                   info, mismatch, badUnlock, uploadVars, store, calls, ret>>

\* ----------------------------------------------------------- specifications
Step(r) ==
    \/ ParseFlags(r)
    \/ CreateClient(r)
    \/ DownloadObjects(r)
    \/ DownloadNext(r)
    \/ DownloadEnd(r)
    \/ AppendOpen(r)
    \/ WalkStep(r)
    \/ AppendVerify(r)
    \/ UploadObject(r)
    \/ CleanUp(r)

Next == (\E r \in Runs : Step(r)) \/ TamperRemove \/ TamperTruncate \/ TamperGrow

Spec == Init /\ [][Next]_vars

\* two runs at once on the same source and target, started in different
\* seconds, with no fault and nothing else touching the file system
InitConcurrent ==
    /\ InitCommon
    /\ pc = [r \in Runs |-> "flags"]
    /\ sourceBucketPrefix = [r \in Runs |-> <<115, 114, 99, 47>>]
    /\ targetBucketPrefix = [r \in Runs |-> <<116, 103, 116, 47, 111, 117, 116>>]
    /\ endpoint = [r \in Runs |-> "valid"]
    /\ enableCleanUp = [r \in Runs |-> "false"]
    /\ clock = [r \in Runs |-> r]
    /\ store \in {s \in Stores : Cardinality(DOMAIN s[SrcName]) = 1 /\ DOMAIN s = {SrcName}}
    /\ faultBudget = 0

NextConcurrent == \E r \in Runs : Step(r)

SpecConcurrent == InitConcurrent /\ [][NextConcurrent]_vars

\* ------------------------------------------------------------------ claims
Range(q) == {q[i] : i \in 1..Len(q)}
Called(r, step) == step \in Range(calls[r])
Returned(r, step) == ret[r][step] # "-"
ObjectName(r) == uploadDirectory[r] \o Components(targetObject[r])
NoFault == faultBudget = MaxFaults
Exited(r) == pc[r] \in {"done", "exit_crash", "exit_panic"}

RECURSIVE Sum(_)
Sum(s) == IF s = <<>> THEN 0 ELSE Head(s) + Sum(Tail(s))

RECURSIVE Concat(_)
Concat(s) == IF s = <<>> THEN <<>> ELSE Head(s) \o Concat(Tail(s))

\* the bytes of the keys ks of run r's source bucket, one after the other
BytesOf(r, ks) == Concat([i \in 1..Len(ks) |-> store[sourceBucket[r]][ks[i]]])

\* order of two paths: component by component, each component as a string
PathLess(p, q) ==
    \E i \in 1..Len(q) :
        /\ i <= Len(p) + 1
        /\ \A j \in 1..(i - 1) : p[j] = q[j]
        /\ (i = Len(p) + 1 \/ StrLess(p[i], q[i]))

RECURSIVE ByPath(_)
ByPath(S) ==
    IF S = {} THEN <<>>
    ELSE LET m == CHOOSE x \in S : \A y \in S \ {x} : PathLess(Components(x), Components(y))
         IN <<m>> \o ByPath(S \ {m})

\* C1: a run whose consistency checks found a mismatch has appendObjects
\* return an error and never invokes uploadObject
C1_MismatchFails ==
    \A r \in Runs :
        mismatch[r] /\ Returned(r, "appendObjects") =>
            ret[r].appendObjects = "err" /\ ~Called(r, "uploadObject")

\* C2 as written: the artifact appendObjects produces is the objects' bytes in
\* the order the listing returned their keys
C2_ListingOrder ==
    \A r \in Runs :
        Returned(r, "appendObjects") /\ out[r].path # <<>> /\ ~tampered =>
            out[r].data = BytesOf(r, listed[r])

\* C2 as amended: the artifact appendObjects produces is the objects' bytes in
\* the order of their paths, compared component by component
C2_WalkOrder ==
    \A r \in Runs :
        Returned(r, "appendObjects") /\ out[r].path # <<>> /\ ~tampered =>
            out[r].data = BytesOf(r, ByPath(Range(listed[r])))

\* "a.txt" and "a/b" were listed in this order and appended as "a/b", "a.txt"
C2_Witness ==
    /\ ret[1].appendObjects = "nil"
    /\ listed[1] = <<<<97, 46, 116, 120, 116>>, <<97, 47, 98>>>>
    /\ out[1].data = <<98, 116>>

\* C3: when the listing gave N >= 1 objects, every fetch succeeded and nothing
\* else touched the scratch files, after the append step fileCount is N,
\* fileSize is the sum of the sizes and so is the artifact's size
C3_CountsAgree ==
    \A r \in Runs :
        /\ Returned(r, "appendObjects")
        /\ NoFault
        /\ found[r] >= 1
        => /\ objectCount[r] = found[r]
           /\ fileCount[r] = objectCount[r]
           /\ fileSize[r] = objectSize[r]
           /\ fileSize[r] = Sum([i \in 1..Len(listed[r]) |-> Len(store[sourceBucket[r]][listed[r][i]])])
           /\ info[r] = objectSize[r]

\* C4: when the listing yields no object, downloadObjects returns an error,
\* appendObjects and uploadObject are never invoked, no artifact file is
\* created and nothing is uploaded
C4_EmptyListingFails ==
    \A r \in Runs :
        found[r] = 0 =>
            /\ pc[r] # "dl_loop" => ret[r].downloadObjects = "err"
            /\ ~Called(r, "appendObjects")
            /\ ~Called(r, "uploadObject")
            /\ ~putCalled[r]
            /\ ObjectName(r) \notin DOMAIN fs
            /\ \A b \in DOMAIN store :
                (targetPrefix[r] \o <<Slash>> \o targetObject[r]) \notin DOMAIN store[b]

\* a run whose listing was empty has ended, through cleanUp
C4_Witness ==
    /\ found[1] = 0
    /\ objectCount[1] = 0
    /\ ret[1].downloadObjects = "err"
    /\ pc[1] = "done"

\* C5: a run that got past the flags and has ended, however it ended, leaves
\* no scratch directory behind unless enable-clean-up is "true" (stated for
\* the runs whose source and target bucket differ and whose RemoveAll calls
\* succeed)
C5_ScratchGone ==
    \A r \in Runs :
        Exited(r) /\ enableCleanUp[r] # "true" /\ sourceBucket[r] # targetBucket[r] =>
            downloadDirectory[r] \notin DOMAIN fs /\ uploadDirectory[r] \notin DOMAIN fs

\* C6: the steps are invoked in pipeline order, and after a step that failed
\* only cleanUp is invoked
PipelineOrder == <<"createClient", "downloadObjects", "appendObjects", "uploadObject", "cleanUp">>
C6_FailureTerminal ==
    \A r \in Runs : \A i \in 1..Len(calls[r]) :
        /\ \A j \in 1..(i - 1) :
            \E m, n \in 1..Len(PipelineOrder) :
                m < n /\ PipelineOrder[m] = calls[r][j] /\ PipelineOrder[n] = calls[r][i]
        /\ \A j \in 1..(i - 1) :
            calls[r][j] # "cleanUp" /\ ret[r][calls[r][j]] = "err" => calls[r][i] = "cleanUp"

\* C7: FPutObject is called only when MakeBucket succeeded or BucketExists
\* returned true without error
C7_UploadOnlyToKnownBucket ==
    \A r \in Runs : putCalled[r] => bucketKnown[r]

\* what the file system holds under run q's scratch directories
ScratchOf(f, q) ==
    [p \in {x \in DOMAIN f : Under(downloadDirectory[q], x) \/ Under(uploadDirectory[q], x)} |-> f[p]]

\* C8: no step of one run changes anything under another run's scratch
\* directories
C8_ScratchPrivate ==
    [][\A q \in Runs :
        downloadDirectory[q] # <<>> /\ actor' # q => ScratchOf(fs', q) = ScratchOf(fs, q)]_vars

\* C9: Unlock is never called on the mutex while it is not held, and the
\* mutex is not held when appendObjects has returned (stated for the runs
\* whose source and target bucket differ)
C9_UnlockedOnce ==
    \A r \in Runs :
        sourceBucket[r] # targetBucket[r] =>
            /\ ~badUnlock[r]
            /\ Returned(r, "appendObjects") => ~mu[r]

\* C10: the files the append pass reads are the staged items, never the
\* artifact, whatever the source and target buckets are (stated for the runs
\* that meet no fault)
C10_ReadsOnlyStaged ==
    \A r \in Runs :
        NoFault =>
            /\ Range(visited[r]) \subseteq staged[r]
            /\ out[r].path \notin Range(visited[r])
            /\ Returned(r, "appendObjects") => Range(visited[r]) = staged[r]

====
